---- MODULE Spec2Model ----
(***************************************************************************)
(* tiny-bot: a chat bot that answers five commands about a weekly "game    *)
(* night".  src/src/game_night.rs holds the schedule calculator and the    *)
(* message formatters, src/src/main.rs the gateway handler.                *)
(*                                                                         *)
(* Time.  An instant (chrono DateTime<Utc>) is an integer count of ticks   *)
(* since 1970-01-01T00:00:00Z; a second holds TicksPerSec ticks, so that   *)
(* the sub-second part of Utc::now() is kept.  A timezone is a constant    *)
(* offset from UTC, in ticks.  Every Utc::now() of the code is a separate  *)
(* clock reading; the readings of one call are non-decreasing.             *)
(***************************************************************************)
EXTENDS Integers, Sequences, FiniteSets, TLC

VARIABLES clock, call

vars == <<clock, call>>

----------------------------------------------------------------------------
(* Bounds of the model *)

\* resolution of the clock: ticks in one second
TicksPerSec == 2

\* the clock runs over the hours 0..MaxHour after the epoch (a week and more)
MaxHour == 168

----------------------------------------------------------------------------
(* Units *)

SecsPerMinute == 60

SecsPerHour == 3600

SecsPerDay == 86400

HoursPerDay == 24

DaysPerWeek == 7

Minute == SecsPerMinute * TicksPerSec
Hour == SecsPerHour * TicksPerSec
Day == SecsPerDay * TicksPerSec
Week == DaysPerWeek * Day

\* NaiveTime::from_hms_opt(h, m, s), as ticks after local midnight
from_hms(h, m, s) == (h * SecsPerHour + m * SecsPerMinute + s) * TicksPerSec

\* Rust's integer division and remainder truncate toward zero
TruncDiv(a, b) == IF a >= 0 THEN a \div b ELSE -((-a) \div b)
TruncRem(a, b) == a - b * TruncDiv(a, b)

\* chrono::Duration::num_seconds / num_minutes / num_hours / num_days:
\* whole units, truncated toward zero
num_seconds(d) == TruncDiv(d, TicksPerSec)
num_minutes(d) == TruncDiv(num_seconds(d), SecsPerMinute)
num_hours(d) == TruncDiv(num_seconds(d), SecsPerHour)
num_days(d) == TruncDiv(num_seconds(d), SecsPerDay)

----------------------------------------------------------------------------
(* chrono::Weekday, by num_days_from_monday *)

Mon == 0
Tue == 1
Wed == 2
Thu == 3
Fri == 4
Sat == 5
Sun == 6

Weekday == Mon .. Sun

\* 1970-01-01 was a Thursday
EpochWeekday == 3

----------------------------------------------------------------------------
(* Local wall-clock time in a zone of constant offset *)

\* config.timezone.from_utc_datetime(&now.naive_utc())
from_utc_datetime(offset, now) == now + offset

\* date_naive(): the local day number (days since 1970-01-01, floor)
date_naive(local) == local \div Day

\* time(): ticks after local midnight, 0 .. Day-1
time_of(local) == local % Day

\* weekday()
weekday_of(local) == (date_naive(local) + EpochWeekday) % DaysPerWeek

\* NaiveTime + Duration wraps around midnight
time_add(t, d) == (t + d) % Day

----------------------------------------------------------------------------
(* GameNightConfig *)

\* chrono_tz::US::Eastern, at its standard-time offset from UTC
EasternOffset == -5 * Hour

DefaultConfig ==
    [ day_of_week    |-> Fri,
      start_time     |-> from_hms(20, 0, 0),
      duration_hours |-> 4,
      offset         |-> EasternOffset ]

\* <<start_time, duration_hours, offset>> of the configurations explored
Schedules ==
    { <<from_hms(20, 0, 0), 4, EasternOffset>>,
      <<from_hms(20, 0, 0), 2, EasternOffset>>,
      <<from_hms(0, 0, 0), 0, 0>>,
      <<from_hms(12, 30, 0), 24, 9 * Hour>>,
      <<from_hms(23, 59, 59), 1, 0>> }

Configs ==
    { [ day_of_week    |-> d,
        start_time     |-> s[1],
        duration_hours |-> s[2],
        offset         |-> s[3] ] : d \in Weekday, s \in Schedules }

----------------------------------------------------------------------------
(* Schedule engine *)

\* variant: the wrap-around branch taken for every pair
days_until_weekday_Plus7(from, to) == 7 - from + to

days_until_weekday(from, to) ==
    LET from_num == from
        to_num == to
    IN  IF to_num >= from_num THEN to_num - from_num
        ELSE 7 - from_num + to_num

\* the local date (day number) get_next_game_night settles on
next_game_night_date(config, now) ==
    LET local_now == from_utc_datetime(config.offset, now)
        days_until_game_night ==
            days_until_weekday(weekday_of(local_now), config.day_of_week)
        next_game_night == date_naive(local_now) + days_until_game_night
    IN  IF days_until_game_night = 0 /\ time_of(local_now) > config.start_time
        THEN next_game_night + DaysPerWeek
        ELSE next_game_night

\* variant: no move to next week once today's start has passed
get_next_game_night_NoRollover(config, now) ==
    LET local_now == from_utc_datetime(config.offset, now)
        date == date_naive(local_now)
                + days_until_weekday(weekday_of(local_now), config.day_of_week)
    IN  date * Day + config.start_time - config.offset

\* variant: the move to next week taken at the start instant too (>= for >)
get_next_game_night_EagerRollover(config, now) ==
    LET local_now == from_utc_datetime(config.offset, now)
        d == days_until_weekday(weekday_of(local_now), config.day_of_week)
        date == date_naive(local_now) + d
        rolled == IF d = 0 /\ time_of(local_now) >= config.start_time
                  THEN date + DaysPerWeek ELSE date
    IN  rolled * Day + config.start_time - config.offset

\* get_next_game_night with its clock reading `now`
get_next_game_night(config, now) ==
    LET game_night_datetime ==
            next_game_night_date(config, now) * Day + config.start_time
    IN  game_night_datetime - config.offset

is_game_night_now(config, now) ==
    LET local_now == from_utc_datetime(config.offset, now)
        current_time == time_of(local_now)
        end_time == time_add(config.start_time, config.duration_hours * Hour)
    IN  IF weekday_of(local_now) # config.day_of_week THEN FALSE
        ELSE current_time >= config.start_time /\ current_time <= end_time

\* variant: the operands of the subtraction swapped
time_until_game_night_Swapped(config, now, now2) ==
    now - get_next_game_night(config, now2)

\* time_until_game_night: `now` is its own reading, `now2` the reading of
\* the get_next_game_night it calls
time_until_game_night(config, now, now2) ==
    get_next_game_night(config, now2) - now

----------------------------------------------------------------------------
(* chrono's formatting of a local date-time *)

\* the civil date <<year, month, day>> of a day number
civil_from_days(days) ==
    LET z == days + 719468
        era == z \div 146097
        doe == z - era * 146097
        yoe == (doe - doe \div 1460 + doe \div 36524 - doe \div 146096) \div 365
        doy == doe - (365 * yoe + yoe \div 4 - yoe \div 100)
        mp == (5 * doy + 2) \div 153
        d == doy - (153 * mp + 2) \div 5 + 1
        m == IF mp < 10 THEN mp + 3 ELSE mp - 9
        y == yoe + era * 400
    IN  <<IF m <= 2 THEN y + 1 ELSE y, m, d>>

\* format("%A, %B %d, %Y"): weekday, month, day of month, year
format_date(local) ==
    LET ymd == civil_from_days(date_naive(local))
    IN  [ weekday |-> weekday_of(local),
          month   |-> ymd[2],
          day     |-> ymd[3],
          year    |-> ymd[1] ]

\* format("%I:%M %p"): hour on the 12-hour clock, minute, AM or PM
format_time(local) ==
    LET h == time_of(local) \div Hour
    IN  [ hour12 |-> ((h + 11) % 12) + 1,
          minute |-> (time_of(local) % Hour) \div Minute,
          pm     |-> h >= 12 ]

----------------------------------------------------------------------------
(* Message formatter *)

\* games of get_next_game_suggestion
NextGames == <<"@Amaterasu is cheating in wordle">>

get_next_game_suggestion(days_away) ==
    NextGames[(days_away % Len(NextGames)) + 1]

\* format_next_game_night: `now1` is read by its get_next_game_night,
\* `now2` by time_until_game_night, `now3` by the get_next_game_night in it.
\* The result holds the values the text is rendered from.
format_next_game_night(config, now1, now2, now3) ==
    LET next_game_night == get_next_game_night(config, now1)
        local_time == from_utc_datetime(config.offset, next_game_night)
        duration == time_until_game_night(config, now2, now3)
        total_seconds == num_seconds(duration)
        days == num_days(duration)
        hours == TruncRem(num_hours(duration), HoursPerDay)
        minutes == TruncRem(num_minutes(duration), SecsPerMinute)
        seconds == TruncRem(total_seconds, SecsPerMinute)
    IN  [ next_game_night |-> next_game_night,
          date            |-> format_date(local_time),
          start           |-> format_time(local_time),
          duration_hours  |-> config.duration_hours,
          duration        |-> duration,
          days            |-> days,
          hours           |-> hours,
          minutes         |-> minutes,
          seconds         |-> seconds,
          game            |-> get_next_game_suggestion(days) ]

\* the hours under which an event of today is "starting soon"
SoonHours == 6

\* format_game_night_status: `now1` is read by is_game_night_now; in the live
\* branch `now2` is the reading the remaining time is computed from; in the
\* other branch `now2` is read by get_next_game_night, `now3` by
\* time_until_game_night and `now4` by the get_next_game_night in it.
format_game_night_status(config, now1, now2, now3, now4) ==
    IF is_game_night_now(config, now1)
    THEN LET local_now == from_utc_datetime(config.offset, now2)
             end_time == time_add(config.start_time, config.duration_hours * Hour)
             time_remaining == end_time - time_of(local_now)
         IN  [ template       |-> "live",
               nows           |-> <<now1, now2>>,
               time_remaining |-> time_remaining,
               hours_left     |-> num_hours(time_remaining),
               minutes_left   |-> TruncRem(num_minutes(time_remaining), SecsPerMinute) ]
    ELSE LET next_game_night == get_next_game_night(config, now2)
             local_time == from_utc_datetime(config.offset, next_game_night)
             duration == time_until_game_night(config, now3, now4)
             days == num_days(duration)
             hours == TruncRem(num_hours(duration), HoursPerDay)
         IN  [ template        |-> IF days = 0 /\ hours < SoonHours THEN "starting_soon"
                                   ELSE IF days = 0 THEN "today"
                                   ELSE IF days = 1 THEN "tomorrow"
                                   ELSE "next",
               nows            |-> <<now1, now2, now3, now4>>,
               next_game_night |-> next_game_night,
               date            |-> format_date(local_time),
               start           |-> format_time(local_time),
               duration        |-> duration,
               days            |-> days,
               hours           |-> hours,
               minutes         |-> TruncRem(num_minutes(duration), SecsPerMinute) ]

\* the suggestion lists of get_game_suggestion, by their first game
Suggestions ==
    <<"Valorant", "League of Legends", "Minecraft", "Among Us", "Rocket League">>

\* now.timestamp(): whole seconds since the epoch
timestamp(now) == now \div TicksPerSec

\* variant: the index rotating every hour
suggestion_index_Hourly(now) == (timestamp(now) \div SecsPerHour) % Len(Suggestions)

\* the index get_game_suggestion computes (0-based)
suggestion_index(now) == (timestamp(now) \div SecsPerDay) % Len(Suggestions)

get_game_suggestion(now) == Suggestions[suggestion_index(now) + 1]

\* get_special_game_night: the label of a date, "" for None
get_special_game_night(date) ==
    LET local_date == from_utc_datetime(EasternOffset, date)
        ymd == civil_from_days(date_naive(local_date))
        md == <<ymd[2], ymd[3]>>
    IN  IF md = <<12, 24>> THEN "Christmas Eve Game Night!"
        ELSE IF md = <<12, 31>> THEN "New Year's Eve Game Night!"
        ELSE IF md = <<10, 31>> THEN "Halloween Game Night!"
        ELSE IF md = <<7, 4>> THEN "Independence Day Game Night!"
        ELSE ""

----------------------------------------------------------------------------
(* Gateway handler *)

\* a message content is a sequence of characters
CmdPing == <<"!", "p", "i", "n", "g">>
CmdGameNight == <<"!", "g", "a", "m", "e", "n", "i", "g", "h", "t">>
CmdNextGame == <<"!", "n", "e", "x", "t", "g", "a", "m", "e">>
CmdIsGameNight == <<"!", "i", "s", "g", "a", "m", "e", "n", "i", "g", "h", "t">>
CmdHelp == <<"!", "h", "e", "l", "p">>

\* the upper-case letters of the contents explored, with their lower case
LowerOf ==
    "A" :> "a" @@ "E" :> "e" @@ "G" :> "g" @@ "H" :> "h" @@ "I" :> "i" @@
    "L" :> "l" @@ "M" :> "m" @@ "N" :> "n" @@ "P" :> "p" @@ "S" :> "s" @@
    "T" :> "t" @@ "X" :> "x"

\* str::to_lowercase
to_lowercase(s) ==
    [i \in 1 .. Len(s) |-> IF s[i] \in DOMAIN LowerOf THEN LowerOf[s[i]] ELSE s[i]]

\* the contents of the inbound messages explored
Contents ==
    { CmdPing, CmdGameNight, CmdNextGame, CmdIsGameNight, CmdHelp,
      <<"!", "P", "I", "N", "G">>,
      <<"!", "G", "a", "m", "e", "N", "i", "g", "h", "t">>,
      <<"!", "N", "E", "X", "T", "G", "A", "M", "E">>,
      <<"!", "I", "s", "G", "a", "m", "e", "N", "i", "g", "h", "t">>,
      <<"!", "H", "e", "l", "p">>,
      <<>>,
      <<"p", "i", "n", "g">>,
      <<"!", "p", "i", "n", "g", " ">>,
      <<" ", "!", "h", "e", "l", "p">>,
      <<"!", "s", "u", "g", "g", "e", "s", "t">>,
      <<"!", "h", "e", "l", "p", "m", "e">> }

\* what one msg.channel_id.say(...) call leaves behind: the reply, and the
\* error line printed when the send fails
say(reply, ok) ==
    [ replies |-> <<reply>>,
      printed |-> IF ok THEN <<>> ELSE <<"Error sending message">> ]

NoReply == [ replies |-> <<>>, printed |-> <<>> ]

\* the body of Handler::message after the check of msg.author.bot
dispatch(content, ok, now1, now2, now3, now4) ==
    IF content = CmdPing
    THEN say([kind |-> "pong"], ok) @@ [nows |-> <<>>]
    ELSE IF content = CmdGameNight
    THEN LET status == format_game_night_status(DefaultConfig, now1, now2, now3, now4)
         IN  say([kind |-> "status", body |-> status], ok) @@ [nows |-> status.nows]
    ELSE IF content = CmdNextGame
    THEN say([kind |-> "next_game",
              body |-> format_next_game_night(DefaultConfig, now1, now2, now3)], ok)
         @@ [nows |-> <<now1, now2, now3>>]
    ELSE IF content = CmdIsGameNight
    THEN say([kind |-> IF is_game_night_now(DefaultConfig, now1) THEN "yes" ELSE "no"], ok)
         @@ [nows |-> <<now1>>]
    ELSE IF content = CmdHelp
    THEN say([kind |-> "help"], ok) @@ [nows |-> <<>>]
    ELSE NoReply @@ [nows |-> <<>>]

\* variant: the content matched without lower-casing it
message_CaseSensitive(bot, content, ok, now1, now2, now3, now4) ==
    IF bot THEN NoReply @@ [nows |-> <<>>]
    ELSE dispatch(content, ok, now1, now2, now3, now4)

\* Handler::message on a message of the given author kind and content; `ok`
\* is whether the send succeeds, now1..now4 the clock readings it may take
message(bot, content, ok, now1, now2, now3, now4) ==
    IF bot THEN NoReply @@ [nows |-> <<>>]
    ELSE dispatch(to_lowercase(content), ok, now1, now2, now3, now4)

----------------------------------------------------------------------------
(* The clock *)

\* the offsets within an hour at which the clock is sampled:
\* the full hour, one tick after it, one tick before the next
Jitter == {0, 1, Hour - 1}

MaxClock == MaxHour * Hour

\* the first sampled instant after t
NextSample(t) ==
    LET base == (t \div Hour) * Hour
        later == { u \in {base + j : j \in Jitter} \cup {base + Hour + j : j \in Jitter} :
                   u > t }
    IN  CHOOSE u \in later : \A v \in later : u <= v

\* what a Utc::now() may return when the previous reading was t
Utc_now(t) == { u \in {t, NextSample(t)} : u <= MaxClock }

Last(nows, default) == IF nows = <<>> THEN default ELSE nows[Len(nows)]

----------------------------------------------------------------------------
(* The state machine: the clock runs, and one call at a time is made and     *)
(* returns.  `call` holds the call in flight: its inputs, the clock readings *)
(* it took and its result.                                                  *)

Idle == [op |-> "idle"]

Init ==
    /\ clock = 0
    /\ call = Idle

Tick ==
    /\ call = Idle
    /\ NextSample(clock) <= MaxClock
    /\ clock' = NextSample(clock)
    /\ UNCHANGED call

GetNextGameNight ==
    /\ call = Idle
    /\ \E config \in Configs :
         LET local_now == from_utc_datetime(config.offset, clock)
         IN  call' = [ op         |-> "get_next_game_night",
                       config     |-> config,
                       now        |-> clock,
                       from       |-> weekday_of(local_now),
                       days_until |-> days_until_weekday(weekday_of(local_now),
                                                         config.day_of_week),
                       result     |-> get_next_game_night(config, clock) ]
    /\ UNCHANGED clock

IsGameNightNow ==
    /\ call = Idle
    /\ \E config \in Configs :
         call' = [ op     |-> "is_game_night_now",
                   config |-> config,
                   now    |-> clock,
                   result |-> is_game_night_now(config, clock) ]
    /\ UNCHANGED clock

TimeUntilGameNight ==
    /\ call = Idle
    /\ \E config \in Configs, now2 \in Utc_now(clock) :
         /\ call' = [ op              |-> "time_until_game_night",
                      config          |-> config,
                      now             |-> clock,
                      now2            |-> now2,
                      next_game_night |-> get_next_game_night(config, now2),
                      result          |-> time_until_game_night(config, clock, now2) ]
         /\ clock' = now2

FormatNextGameNight ==
    /\ call = Idle
    /\ \E config \in Configs, now2 \in Utc_now(clock) :
         \E now3 \in Utc_now(now2) :
           /\ call' = [ op     |-> "format_next_game_night",
                        config |-> config,
                        nows   |-> <<clock, now2, now3>>,
                        result |-> format_next_game_night(config, clock, now2, now3) ]
           /\ clock' = now3

FormatGameNightStatus ==
    /\ call = Idle
    /\ \E config \in Configs, now2 \in Utc_now(clock) :
         \E now3 \in Utc_now(now2) :
           \E now4 \in Utc_now(now3) :
             LET status == format_game_night_status(config, clock, now2, now3, now4)
             IN  /\ call' = [ op     |-> "format_game_night_status",
                              config |-> config,
                              result |-> status ]
                 /\ clock' = Last(status.nows, clock)

GetGameSuggestion ==
    /\ call = Idle
    /\ call' = [ op     |-> "get_game_suggestion",
                 now    |-> clock,
                 index  |-> suggestion_index(clock),
                 result |-> get_game_suggestion(clock) ]
    /\ UNCHANGED clock

GetSpecialGameNight ==
    /\ call = Idle
    /\ call' = [ op     |-> "get_special_game_night",
                 date   |-> clock,
                 result |-> get_special_game_night(clock) ]
    /\ UNCHANGED clock

Message ==
    /\ call = Idle
    /\ \E bot \in BOOLEAN, content \in Contents, ok \in BOOLEAN, now2 \in Utc_now(clock) :
         \E now3 \in Utc_now(now2) :
           \E now4 \in Utc_now(now3) :
             LET out == message(bot, content, ok, clock, now2, now3, now4)
             IN  /\ call' = [ op      |-> "message",
                              bot     |-> bot,
                              content |-> content,
                              now     |-> clock,
                              replies |-> out.replies,
                              printed |-> out.printed ]
                 /\ clock' = Last(out.nows, clock)

Return ==
    /\ call # Idle
    /\ call' = Idle
    /\ UNCHANGED clock

Next ==
    \/ Tick
    \/ GetNextGameNight
    \/ IsGameNightNow
    \/ TimeUntilGameNight
    \/ FormatNextGameNight
    \/ FormatGameNightStatus
    \/ GetGameSuggestion
    \/ GetSpecialGameNight
    \/ Message
    \/ Return

Spec == Init /\ [][Next]_vars

----------------------------------------------------------------------------
(* Properties *)

\* local date-time of an instant in the zone of the call's configuration
LocalOf(t) == from_utc_datetime(call.config.offset, t)

\* C1: the occurrence get_next_game_night returns at clock reading T is
\* never earlier than T.
C1_NextOccurrenceNotBeforeNow ==
    call.op = "get_next_game_night" => call.result >= call.now

\* C1 at its boundary: the call is made at the very start instant and
\* returns that instant
C1_Witness ==
    /\ call.op = "get_next_game_night"
    /\ call.config = DefaultConfig
    /\ call.result = call.now

\* C2: is_game_night_now is true iff the local weekday is the configured one
\* and the local time of day lies in [start_time, start_time + duration_hours
\* hours], both ends included (for the default config: [20:00, 24:00]).
C2_LiveIffInClosedInterval ==
    call.op = "is_game_night_now" =>
        LET local_now == LocalOf(call.now)
            start == call.config.start_time
            end == start + call.config.duration_hours * Hour
        IN  call.result =
                ( /\ weekday_of(local_now) = call.config.day_of_week
                  /\ time_of(local_now) >= start
                  /\ time_of(local_now) <= end )

\* C3: time_until_game_night returns the computed next occurrence minus its
\* own reading 'now', and that is never negative when the two readings are
\* non-decreasing.
C3_TimeUntilIsNextMinusNow ==
    call.op = "time_until_game_night" =>
        /\ call.now <= call.now2
        /\ call.result = call.next_game_night - call.now
        /\ call.result >= 0

\* C3 with two different readings around the start instant: the first at the
\* start, the second after it, so that the occurrence is next week's
C3_Witness ==
    /\ call.op = "time_until_game_night"
    /\ call.now < call.now2
    /\ call.result = Week

\* C4: the occurrence falls on the configured weekday at exactly start_time
\* local, and is the earliest such date-time not before T: today when today
\* is the target weekday and the time of day is at most start_time, today
\* plus 7 days when it is strictly later, today plus daysUntil (1..6) on any
\* other weekday.
C4_EarliestOccurrenceOnTargetDay ==
    call.op = "get_next_game_night" =>
        LET local_now == LocalOf(call.now)
            local_next == LocalOf(call.result)
            today == date_naive(local_now)
            target == call.config.day_of_week
            start == call.config.start_time
        IN  /\ weekday_of(local_next) = target
            /\ time_of(local_next) = start
            /\ call.result >= call.now
            /\ call.result - Week < call.now
            /\ (weekday_of(local_now) = target /\ time_of(local_now) <= start)
                   => date_naive(local_next) = today
            /\ (weekday_of(local_now) = target /\ time_of(local_now) > start)
                   => date_naive(local_next) = today + 7
            /\ weekday_of(local_now) # target
                   => /\ call.days_until \in 1 .. 6
                      /\ date_naive(local_next) = today + call.days_until

\* C4 one tick after the start on the target weekday: the date moves on by
\* a week
C4_Witness ==
    /\ call.op = "get_next_game_night"
    /\ weekday_of(LocalOf(call.now)) = call.config.day_of_week
    /\ time_of(LocalOf(call.now)) = call.config.start_time + 1
    /\ date_naive(LocalOf(call.result)) = date_naive(LocalOf(call.now)) + 7

\* C5: days_until_weekday(from, to) = (to - from + 7) mod 7 with Monday = 0:
\* it is in 0..6, is 0 exactly when from = to, and Mon->Fri = 4,
\* Fri->Mon = 3, Wed->Wed = 0.
C5_DaysUntilWeekday ==
    /\ days_until_weekday(Mon, Fri) = 4
    /\ days_until_weekday(Fri, Mon) = 3
    /\ days_until_weekday(Wed, Wed) = 0
    /\ call.op = "get_next_game_night" =>
           /\ call.days_until = (call.config.day_of_week - call.from + 7) % 7
           /\ call.days_until \in 0 .. 6
           /\ (call.days_until = 0) <=> (call.from = call.config.day_of_week)

\* C5 on a pair that wraps over the end of the week
C5_Witness ==
    /\ call.op = "get_next_game_night"
    /\ call.from = Fri
    /\ call.config.day_of_week = Mon
    /\ call.days_until = 3

\* C6: when not live, format_game_night_status picks its template by the
\* calendar: "starting soon" iff the occurrence is on today's local date and
\* under 6 hours away, "today" iff on today's date and 6 hours or more away,
\* "tomorrow" iff on the next local date, "next" otherwise.  Stated for the
\* calls whose clock readings all coincide.
C6_TemplateByCalendarProximity ==
    ( /\ call.op = "format_game_night_status"
      /\ call.result.template # "live"
      /\ \A i \in 1 .. Len(call.result.nows) : call.result.nows[i] = call.result.nows[1] )
    =>  LET now == call.result.nows[1]
            today == date_naive(LocalOf(now))
            date == date_naive(LocalOf(call.result.next_game_night))
            away == call.result.next_game_night - now
        IN  call.result.template =
                IF date = today /\ away < SoonHours * Hour THEN "starting_soon"
                ELSE IF date = today THEN "today"
                ELSE IF date = today + 1 THEN "tomorrow"
                ELSE "next"

\* the five command tokens
Commands == {CmdPing, CmdGameNight, CmdNextGame, CmdIsGameNight, CmdHelp}

\* s is cmd up to the case of its letters
MatchesIgnoringCase(s, cmd) ==
    /\ Len(s) = Len(cmd)
    /\ \A i \in 1 .. Len(s) :
         \/ s[i] = cmd[i]
         \/ s[i] \in DOMAIN LowerOf /\ LowerOf[s[i]] = cmd[i]

\* the kinds of reply a command may get
ReplyKinds(cmd, now) ==
    IF cmd = CmdPing THEN {"pong"}
    ELSE IF cmd = CmdGameNight THEN {"status"}
    ELSE IF cmd = CmdNextGame THEN {"next_game"}
    ELSE IF cmd = CmdIsGameNight
    THEN {IF is_game_night_now(DefaultConfig, now) THEN "yes" ELSE "no"}
    ELSE {"help"}

\* C7: Handler::message sends no reply to a bot's message; to any other
\* message it sends exactly one reply, of the command's kind, if the
\* lower-cased content is one of the five tokens, and none otherwise.
C7_OneReplyPerCommand ==
    call.op = "message" =>
        IF call.bot THEN call.replies = <<>>
        ELSE /\ \A cmd \in Commands :
                  MatchesIgnoringCase(call.content, cmd) =>
                      /\ Len(call.replies) = 1
                      /\ call.replies[1].kind \in ReplyKinds(cmd, call.now)
             /\ (\A cmd \in Commands : ~MatchesIgnoringCase(call.content, cmd))
                  => call.replies = <<>>

\* C7 on a command written in upper case by a user
C7_Witness ==
    /\ call.op = "message"
    /\ ~call.bot
    /\ call.content = <<"!", "P", "I", "N", "G">>
    /\ Len(call.replies) = 1
    /\ call.replies[1].kind = "pong"

\* the sampled instants of the UTC day of t
SameUtcDay(t) ==
    { (t \div Day) * Day + h * Hour + j : h \in 0 .. HoursPerDay - 1, j \in Jitter }

\* C8: the index get_game_suggestion picks is the same for any two
\* non-negative instants of one UTC day, and differs between the last second
\* of a UTC day and the first second of the next.
C8_SuggestionStableWithinUtcDay ==
    call.op = "get_game_suggestion" =>
        /\ \A t \in SameUtcDay(call.now) : suggestion_index(t) = call.index
        /\ timestamp(call.now) % SecsPerDay = SecsPerDay - 1
               => suggestion_index((timestamp(call.now) + 1) * TicksPerSec) # call.index

\* C8 in the last second of a UTC day
C8_Witness ==
    /\ call.op = "get_game_suggestion"
    /\ call.now >= Day
    /\ timestamp(call.now) % SecsPerDay = SecsPerDay - 1

\* C9: in the live branch of format_game_night_status the remaining time
\* rendered is never negative and never more than duration_hours hours, and
\* the minutes rendered are in 0..59.
C9_RemainingTimeWithinDuration ==
    (call.op = "format_game_night_status" /\ call.result.template = "live") =>
        /\ call.result.nows[1] <= call.result.nows[2]
        /\ call.result.time_remaining >= 0
        /\ call.result.time_remaining <= call.config.duration_hours * Hour
        /\ call.result.minutes_left \in 0 .. 59

\* C10: in one call of format_next_game_night the countdown rendered is the
\* occurrence rendered minus a clock reading of that call, so it is under 7
\* days: days in 0..6, hours in 0..23, minutes and seconds in 0..59, and the
\* four add up to the whole seconds of the countdown.
C10_CountdownMatchesOccurrence ==
    call.op = "format_next_game_night" =>
        LET r == call.result
        IN  /\ \E i \in 1 .. 3 : r.duration = r.next_game_night - call.nows[i]
            /\ r.days \in 0 .. 6
            /\ r.hours \in 0 .. 23
            /\ r.minutes \in 0 .. 59
            /\ r.seconds \in 0 .. 59
            /\ r.days * SecsPerDay + r.hours * SecsPerHour
                   + r.minutes * SecsPerMinute + r.seconds = num_seconds(r.duration)

====
